---- MODULE Spec2Model ----
(***************************************************************************)
(* vps-path-watcher: the control loop (main.go), the per-interface status  *)
(* and its healthy() verdict (vps.go), flap damping, policy computation    *)
(* and the nftables apply step (nft.go).                                   *)
(*                                                                         *)
(* Time is kept as elapsed time: every stored time.Time is the time that   *)
(* has passed since it was taken, capped at minTimeOut, which is all that  *)
(* time.Since(x) < config.minTimeOut reads.  The zero time.Time and        *)
(* "8760 hours ago" are both the cap.                                      *)
(*                                                                         *)
(* Goroutines interleave at the granularity of the actions below; each     *)
(* action is a run of statements of checkInterfaces without blocking I/O   *)
(* in between, except that lines 114-115 and 119-128 are separate steps.   *)
(* updateNFT is two steps, its connection and its flush and install.       *)
(* initNFT of a reload is one step under Spec; SpecInit takes it one       *)
(* makeTarget at a time next to a checkInterfaces that is still running.   *)
(***************************************************************************)
EXTENDS Integers, Sequences, FiniteSets, Bags, TLC

VARIABLES
    mainpc,         \* position of the main goroutine
    wgCount,        \* wg: the sync.WaitGroup counter
    cycles,         \* bag of running checkInterfaces executions
    ifs,            \* config.Interfaces: the current vpsInterface objects
    currentStatus,  \* var currentStatus string
    lbRules,        \* rules in the shared load-balancing chain (kernel state)
    tgRules,        \* per interface: rules in its target chain (kernel state)
    nft,            \* var nft *nftables.Conn: "nil", or "conn" when it points to a Conn,
                    \* or "held" when that Conn holds the flush that makeTarget has queued
    sinceUnh,       \* per interface: the last check, the last unhealthy verdict within minTimeOut
                    \* and whether its last verdict was unhealthy (history)
    lastEvt,        \* what the last step did: an apply step, a verdict (history)
    callArg,        \* the argument of a function called on its own
    callRes         \* and its result

mainvars == <<mainpc, wgCount, cycles, ifs, currentStatus, lbRules, tgRules, nft, sinceUnh, lastEvt>>

vars == <<mainvars, callArg, callRes>>

----------------------------------------------------------------------------
(* Bounds and configuration *)

\* goroutines of checkInterfaces outstanding at once
MaxCycles == 2
\* rules the shared chain may hold (it grows only when a flush fails)
MaxRules == 1
\* config.minTimeOut, in clock units
minTimeOut == 1
\* len(config.Interfaces)
NumIfs == 2
\* entries of a healthChecks map, where healthy() is called on its own
MaxChecks == 2
\* interfaces handed to makeRule, where it is called on its own
MaxSel == 3
\* largest vpsHealthCheck.Retries, where a check is called on its own
MaxRetries == 2
\* vpsInterface.wgMaxHandshake, in clock units
MaxHandshake == 1

Never == minTimeOut

IfIds == 1..NumIfs

\* vpsInterface.Name
Name(i) == <<"wg0", "wg1", "wg2", "wg3">>[i]

\* vpsInterface.Target
Target(i) == <<"t0", "t1", "t2", "t3">>[i]

\* vpsInterface.Ratio
Ratio(i) == <<3, 7, 2, 1>>[i]

\* vpsInterface.Checks: the names of the configured tcp/icmp/http checks
Checks(i) == IF i % 2 = 1 THEN {"tcp"} ELSE {}

\* vpsInterface.Mark
Mark(i) == <<1, 0, 2, 0>>[i]

\* the fields of a configured vpsInterface that makeRule reads
Conf(i) == [Ratio |-> Ratio(i), Target |-> Target(i)]

Confs(ids) == [k \in 1..Len(ids) |-> Conf(ids[k])]

----------------------------------------------------------------------------
(* interfaceStatus *)

EmptyMap == [c \in {} |-> TRUE]

\* new(interfaceStatus)
ZeroStatus ==
    [exists |-> FALSE, up |-> FALSE, addressed |-> FALSE,
     healthChecks |-> EmptyMap, time |-> Never]

\* healthy() with the test of addressed left out
healthyNoAddressed(s) ==
    LET basic == IF ~s.exists THEN <<"Interface does not exist">>
                 ELSE IF ~s.up THEN <<"Interface is no up">>
                 ELSE <<>>
        failed == {c \in DOMAIN s.healthChecks : ~s.healthChecks[c]}
    IN  [ok |-> (basic = <<>>) /\ (failed = {}),
         basic |-> basic,
         failed |-> failed]

\* healthy() with three separate tests of the basic checks in place of the
\* else-if chain
healthyEachBasic(s) ==
    LET basic == (IF ~s.exists THEN <<"Interface does not exist">> ELSE <<>>)
                 \o (IF ~s.up THEN <<"Interface is no up">> ELSE <<>>)
                 \o (IF ~s.addressed THEN <<"Interface not properly addressed">> ELSE <<>>)
        failed == {c \in DOMAIN s.healthChecks : ~s.healthChecks[c]}
    IN  [ok |-> (basic = <<>>) /\ (failed = {}),
         basic |-> basic,
         failed |-> failed]

\* interfaceStatus.healthy: the verdict and the reasons, which are basic
\* followed by one "Failed <name>" for every name of failed
healthyReasons(s) ==
    LET basic == IF ~s.exists THEN <<"Interface does not exist">>
                 ELSE IF ~s.up THEN <<"Interface is no up">>
                 ELSE IF ~s.addressed THEN <<"Interface not properly addressed">>
                 ELSE <<>>
        failed == {c \in DOMAIN s.healthChecks : ~s.healthChecks[c]}
    IN  [ok |-> (basic = <<>>) /\ (failed = {}),
         basic |-> basic,
         failed |-> failed]

healthy(s) == healthyReasons(s).ok

\* the checks of a status, without its time
Fields(s) ==
    [exists |-> s.exists, up |-> s.up, addressed |-> s.addressed,
     healthChecks |-> s.healthChecks]

\* a vpsInterface after yaml.Unmarshal: no status history
\* hasLast is lastStatus != nil, the only use the program makes of lastStatus
FreshIf == [status |-> ZeroStatus, hasLast |-> FALSE, lastUnhealthy |-> Never]

FreshIfs == [i \in IfIds |-> FreshIf]

\* resetHealth: every interface of config.Interfaces gets a new status
resetHealth(objs) == [i \in IfIds |-> [objs[i] EXCEPT !.status = ZeroStatus]]

\* basicChecks: what the kernel reports for the interface
BasicObs ==
    {[exists |-> FALSE, up |-> FALSE, addressed |-> FALSE]} \cup
    [exists : {TRUE}, up : BOOLEAN, addressed : {TRUE}]

\* basicChecks only ever sets fields to true
basicChecks(s, obs) ==
    [s EXCEPT !.exists = IF obs.exists THEN TRUE ELSE @,
              !.up = IF obs.exists /\ obs.up THEN TRUE ELSE @,
              !.addressed = IF obs.exists /\ obs.addressed THEN TRUE ELSE @]

\* healthChecks: one map entry per configured check
healthChecks(s, res) ==
    [s EXCEPT !.healthChecks =
        [c \in DOMAIN res \cup DOMAIN @ |-> IF c \in DOMAIN res THEN res[c] ELSE @[c]]]

----------------------------------------------------------------------------
(* Elapsed time *)

Tick1(a) == IF a < Never THEN a + 1 ELSE Never

AgeStatus(s) == [s EXCEPT !.time = Tick1(@)]

\* no check and no unhealthy verdict in the last minTimeOut; rec is the time
\* since the interface was last checked (line 114), age the time since the
\* check that was found unhealthy, st the status of that verdict; bad is
\* whether the last verdict on the interface, however long ago, was unhealthy
NoVerdict == [rec |-> Never, age |-> Never, st |-> Fields(ZeroStatus), bad |-> FALSE]

AgeVerdict(v) ==
    IF Tick1(v.age) = Never THEN [NoVerdict EXCEPT !.rec = Tick1(v.rec), !.bad = v.bad]
    ELSE [v EXCEPT !.age = @ + 1, !.rec = Tick1(@)]

AgeIf(o) ==
    [o EXCEPT !.status = AgeStatus(@), !.lastUnhealthy = Tick1(@)]

----------------------------------------------------------------------------
(* Health checks *)

RECURSIVE tcpLoop(_, _, _, _, _)
\* checkTCP lines 565-579: the loop at index i, after n dials and sl sleeps;
\* dials[k] is whether the k-th net.DialTimeout connects
tcpLoop(c, dials, i, n, sl) ==
    IF ~(i < c.Retries) THEN [ok |-> FALSE, attempts |-> n, sleeps |-> sl]
    ELSE IF ~dials[n + 1] THEN tcpLoop(c, dials, i + 1, n + 1, sl + 1)
    ELSE [ok |-> TRUE, attempts |-> n + 1, sleeps |-> sl]

\* checkTCP with the loop started at 0
checkTCPFromZero(c, dials) == tcpLoop(c, dials, 0, 0, 0)

\* vpsHealthCheck.checkTCP
checkTCP(c, dials) == tcpLoop(c, dials, -1, 0, 0)

\* regexp.Compile: of the patterns used here only "(" does not compile
Compiles(re) == re # "("

\* re.Match(body): of the bodies used here the pattern matches its own text
Match(re, body) == re = body

RECURSIVE httpLoop(_, _, _, _, _, _)
\* checkHTTP lines 457-485: the loop at index i, after n requests and sl
\* sleeps; resps[k] is the outcome of the k-th client.Get. With retryStatus
\* a response with the wrong code is followed by another request.
httpLoop(c, resps, i, n, sl, retryStatus) ==
    IF ~(i < c.Retries) THEN [ok |-> FALSE, requests |-> n, sleeps |-> sl]
    ELSE LET r == resps[n + 1]
         IN  IF r.err THEN httpLoop(c, resps, i + 1, n + 1, sl + 1, retryStatus)
             ELSE IF c.ResponseCode # r.code
             THEN IF retryStatus THEN httpLoop(c, resps, i + 1, n + 1, sl, retryStatus)
                  ELSE [ok |-> FALSE, requests |-> n + 1, sleeps |-> sl]
             ELSE IF c.MatchRegEx # "" /\ ~Match(c.MatchRegEx, r.body)
             THEN [ok |-> FALSE, requests |-> n + 1, sleeps |-> sl]
             ELSE [ok |-> TRUE, requests |-> n + 1, sleeps |-> sl]

\* checkHTTP with a retry after a response with the wrong status code
checkHTTPRetryStatus(c, resps) ==
    IF c.MatchRegEx # "" /\ ~Compiles(c.MatchRegEx)
    THEN [ok |-> FALSE, requests |-> 0, sleeps |-> 0]
    ELSE IF c.Method = "GET" THEN httpLoop(c, resps, -1, 0, 0, TRUE)
    ELSE [ok |-> FALSE, requests |-> 0, sleeps |-> 0]

\* checkHTTP without the default case of the switch: every method is
\* sent as a GET
checkHTTPAnyMethod(c, resps) ==
    IF c.MatchRegEx # "" /\ ~Compiles(c.MatchRegEx)
    THEN [ok |-> FALSE, requests |-> 0, sleeps |-> 0]
    ELSE httpLoop(c, resps, -1, 0, 0, FALSE)

\* vpsHealthCheck.checkHTTP
checkHTTP(c, resps) ==
    IF c.MatchRegEx # "" /\ ~Compiles(c.MatchRegEx)
    THEN [ok |-> FALSE, requests |-> 0, sleeps |-> 0]
    ELSE IF c.Method = "GET" THEN httpLoop(c, resps, -1, 0, 0, FALSE)
    ELSE [ok |-> FALSE, requests |-> 0, sleeps |-> 0]

\* checkICMP with >= for > in the test of the packet loss
checkICMPLossGeq(c, p) ==
    IF p.newErr THEN FALSE
    ELSE IF p.runErr THEN FALSE
    ELSE IF c.MaxRTT # 0 /\ p.AvgRtt > c.MaxRTT THEN FALSE
    ELSE IF c.MaxLossPcnt # 0 THEN ~(p.PacketLoss >= c.MaxLossPcnt)
    ELSE p.PacketLoss # 100

\* vpsHealthCheck.checkICMP; p is what the pinger reports: the errors of
\* NewPinger and Run, the average RTT in ms and the packet loss in percent
checkICMP(c, p) ==
    IF p.newErr THEN FALSE
    ELSE IF p.runErr THEN FALSE
    ELSE IF c.MaxRTT # 0 /\ p.AvgRtt > c.MaxRTT THEN FALSE
    ELSE IF c.MaxLossPcnt # 0 THEN ~(p.PacketLoss > c.MaxLossPcnt)
    ELSE p.PacketLoss # 100

\* no device, no peer
None == [Name |-> ""]

\* getWgDev: the first device of that name
getWgDev(devs, name) ==
    IF \E k \in DOMAIN devs : devs[k].Name = name
    THEN devs[CHOOSE k \in DOMAIN devs :
                  devs[k].Name = name /\ \A j \in 1..(k - 1) : devs[j].Name # name]
    ELSE None

\* getWgPeer: the peer of the device with that public key
getWgPeer(device, peerID) ==
    IF \E q \in device.Peers : q.PublicKey = peerID
    THEN CHOOSE q \in device.Peers : q.PublicKey = peerID
    ELSE None

\* checkWgLastHandshake; LastHandshake is the time since the handshake
checkWgLastHandshake(i, peer, checks) ==
    [c \in DOMAIN checks \cup {"wg_last_handshake"} |->
        IF c = "wg_last_handshake" THEN ~(peer.LastHandshake > i.wgMaxHandshake)
        ELSE checks[c]]

\* the healthChecks map with one more entry
Put(checks, name, v) ==
    [c \in DOMAIN checks \cup {name} |-> IF c = name THEN v ELSE checks[c]]

\* the checks of checkWgHealth on the device list devs
wgChecks(i, devs) ==
    LET device == getWgDev(devs, i.Name)
    IN  IF device = None THEN Put(EmptyMap, "wg_dev_exists", FALSE)
        ELSE LET m1 == Put(EmptyMap, "wg_dev_exists", TRUE)
             IN  IF i.WGPeer = "" THEN m1
                 ELSE LET peer == getWgPeer(device, i.WGPeer)
                      IN  IF peer = None THEN Put(m1, "wg_has_peer", FALSE)
                          ELSE checkWgLastHandshake(i, peer, Put(m1, "wg_has_peer", TRUE))

\* checkWgHealth without getWgDevs: the list fetched earlier is used
checkWgHealthCached(i, devices, cur, fetchOk) ==
    [fatal |-> FALSE, devices |-> devices, checks |-> wgChecks(i, devices)]

\* checkWgHealth: devices is the list fetched earlier, cur what
\* client.Devices() returns now; an error of it ends the process
checkWgHealth(i, devices, cur, fetchOk) ==
    IF ~fetchOk THEN [fatal |-> TRUE, devices |-> devices, checks |-> EmptyMap]
    ELSE [fatal |-> FALSE, devices |-> cur, checks |-> wgChecks(i, cur)]

----------------------------------------------------------------------------
(* Policy *)

RECURSIVE getHealthyFrom(_, _)
getHealthyFrom(objs, i) ==
    IF i > NumIfs THEN <<>>
    ELSE IF healthy(objs[i].status)
         THEN <<i>> \o getHealthyFrom(objs, i + 1)
         ELSE getHealthyFrom(objs, i + 1)

\* getHealthyInterfaces: the healthy interfaces, in configuration order
getHealthyInterfaces(objs) == getHealthyFrom(objs, 1)

RECURSIVE Join(_)
\* strings.Join(ss, "|")
Join(ss) ==
    IF ss = <<>> THEN ""
    ELSE IF Len(ss) = 1 THEN ss[1]
    ELSE ss[1] \o "|" \o Join(Tail(ss))

\* lines 132-146 with <= for < at line 136
desiredStatusLeq(cur, hs) ==
    IF hs = <<>> THEN cur
    ELSE IF Len(hs) <= NumIfs THEN Join([k \in 1..Len(hs) |-> Name(hs[k])])
    ELSE "all"

\* lines 132-146: desiredStatus from the healthy interfaces
desiredStatus(cur, hs) ==
    IF hs = <<>> THEN cur
    ELSE IF Len(hs) < NumIfs THEN Join([k \in 1..Len(hs) |-> Name(hs[k])])
    ELSE "all"

----------------------------------------------------------------------------
(* nftables *)

\* uint8 conversion and uint8 arithmetic: the value modulo 2^8
U8(x) == ((x % 256) + 256) % 256

RECURSIVE SumRatios(_)
\* makeRule lines 161-163: ttlMod += uint8(i.Ratio)
SumRatios(nifs) ==
    IF nifs = <<>> THEN 0 ELSE U8(SumRatios(Tail(nifs)) + U8(Head(nifs).Ratio))

RECURSIVE Ranges(_, _)
\* makeRule lines 173-177: one "lo-hi : goto target" per interface
Ranges(nifs, curMod) ==
    IF nifs = <<>> THEN <<>>
    ELSE LET r == U8(Head(nifs).Ratio)
         IN  <<[lo |-> curMod, hi |-> U8(r + U8(curMod - 1)), target |-> Head(nifs).Target]>>
             \o Ranges(Tail(nifs), U8(curMod + r))

\* makeRule: the load-balancing rule for a list of interfaces
makeRule(nifs) ==
    LET ttlMod == SumRatios(nifs)
        mod == IF ttlMod # 10 THEN ttlMod ELSE 10
    IN  [mod |-> mod, vmap |-> Ranges(nifs, 0)]

AllIfs == [i \in IfIds |-> i]

\* the strings strings.Split can return parts of
NameParts == {Name(i) : i \in IfIds} \cup {""}

\* strings.Split(ss, "|"): the parts whose Join is ss
Split(ss) ==
    CHOOSE ps \in UNION {[1..k -> NameParts] : k \in 1..NumIfs} : Join(ps) = ss

RECURSIVE Matching(_, _, _)
\* routeToSubset lines 116-122: for each part, the interfaces of that name
Matching(ps, k, i) ==
    IF k > Len(ps) THEN <<>>
    ELSE IF i > NumIfs THEN Matching(ps, k + 1, 1)
    ELSE IF ps[k] = Name(i) THEN <<i>> \o Matching(ps, k, i + 1)
    ELSE Matching(ps, k, i + 1)

\* config.LBChain
LBChain == "lb"

\* the chains of the table: the rules of the shared chain and of every
\* target chain
Table(lb, tg) ==
    [c \in {LBChain} \cup {Target(i) : i \in IfIds} |->
        IF c = LBChain THEN lb ELSE tg[CHOOSE i \in IfIds : Target(i) = c]]

\* the target chains of a table
Targets(t) == [i \in IfIds |-> t[Target(i)]]

\* the rule of makeTarget line 200: meta mark set <mark> return
MarkRule(i) == [mark |-> Mark(i)]

\* makeTarget with the flush of the chain left out
makeTargetNoFlush(i, old, how, delivered) ==
    IF how = "commit_err" THEN [rules |-> old, fatal |-> TRUE]
    ELSE IF Mark(i) # 0
    THEN IF how = "cmd_err" THEN [rules |-> old, fatal |-> TRUE]
         ELSE [rules |-> Append(old, MarkRule(i)), fatal |-> FALSE]
    ELSE [rules |-> old, fatal |-> FALSE]

\* makeTarget: the chain is added (its rules stay); with a mark,
\* nft.FlushChain queues the flush on the handle and commitAll sends what
\* is queued on the handle, then the nft binary adds the rule that sets the
\* mark. delivered is whether the flush was on the handle that commitAll
\* used. how is "ok", or "commit_err" when a commit fails (log.Panicf), or
\* "cmd_err" when the nft command fails (log.Fatalf)
makeTarget(i, old, how, delivered) ==
    LET flushed == IF delivered THEN <<>> ELSE old
    IN  IF how = "commit_err" THEN [rules |-> old, fatal |-> TRUE]
        ELSE IF Mark(i) # 0
        THEN IF how = "cmd_err" THEN [rules |-> flushed, fatal |-> TRUE]
             ELSE [rules |-> Append(flushed, MarkRule(i)), fatal |-> FALSE]
        ELSE [rules |-> old, fatal |-> FALSE]

\* where initNFT fails: nowhere, or in makeTarget of interface at
InitFails ==
    {[at |-> 0, how |-> "ok"]}
        \cup {[at |-> i, how |-> h] : i \in IfIds, h \in {"commit_err", "cmd_err"}}

RECURSIVE initFrom(_, _, _)
\* initNFT lines 73-75 from interface i on, run without another goroutine
\* on the handle in between: every queued flush is delivered
initFrom(tg, i, fail) ==
    IF i > NumIfs THEN [rules |-> tg, fatal |-> FALSE]
    ELSE LET r == makeTarget(i, tg[i], IF fail.at = i THEN fail.how ELSE "ok", TRUE)
             t == [tg EXCEPT ![i] = r.rules]
         IN  IF r.fatal THEN [rules |-> t, fatal |-> TRUE]
             ELSE initFrom(t, i + 1, fail)

\* initNFT: the table, the shared chain, then the target of every interface
initNFT(tg, fail) == initFrom(tg, 1, fail)

\* the first interface from i on that has a mark, or 0
NextMarked(i) ==
    IF \E j \in i..NumIfs : Mark(j) # 0
    THEN CHOOSE j \in i..NumIfs : Mark(j) # 0 /\ \A k \in i..(j - 1) : Mark(k) = 0
    ELSE 0

\* main between nft.FlushChain and commitAll of makeTarget for interface i
FlushPc(i) == <<"flush1", "flush2", "flush3", "flush4">>[i]

FlushPcs == {FlushPc(i) : i \in IfIds}

\* a rule that this program does not write
ForeignRule == [mark |-> 99]

\* the target chains before the program starts: each holds a rule put there
\* by someone else
PreTargets == [i \in IfIds |-> <<ForeignRule>>]

\* a flush that empties every chain of the table
flushAllChains(t, flushOk) == IF flushOk THEN [c \in DOMAIN t |-> <<>>] ELSE t

\* flushChainRules: nft.FlushChain(lbChain); a failed commit is logged and
\* the chain keeps its rules
flushChainRules(t, flushOk) == IF flushOk THEN [t EXCEPT ![LBChain] = <<>>] ELSE t

\* no command handed to nft
NoCmd == [mod |-> -1, vmap |-> <<>>]

\* addRuleToChain: the rule of makeRule is handed to the nft binary; a failed
\* command ends the process (log.Fatalf)
addRuleToChain(nifs, addOk) ==
    [cmd |-> makeRule(nifs), installed |-> addOk, fatal |-> ~addOk]

\* updateNFT with routeToAll / routeToSubset / addRuleToChain.
\* The outcome: the returned state, the chains of the table, whether
\* log.Fatalf ended the process, and the calls made.
updateNFT(ds, rules, connOk, flushOk, addOk) ==
    IF ~connOk
    THEN [state |-> "", rules |-> rules, fatal |-> FALSE, ops |-> <<"connect_err">>]
    ELSE LET nifs == IF ds = "all" THEN AllIfs ELSE Matching(Split(ds), 1, 1)
             flushed == flushChainRules(rules, flushOk)
             fl == IF flushOk THEN "flush" ELSE "flush_err"
         IN  IF nifs = <<>>
             THEN [state |-> "", rules |-> rules, fatal |-> TRUE, ops |-> <<>>]
             ELSE IF ~addOk
             THEN [state |-> "", rules |-> flushed, fatal |-> TRUE, ops |-> <<fl, "add_err">>]
             ELSE [state |-> IF ds = "all" THEN "all" ELSE "",
                   rules |-> [flushed EXCEPT ![LBChain] = Append(@, makeRule(Confs(nifs)))],
                   fatal |-> FALSE, ops |-> <<fl, "add">>]

----------------------------------------------------------------------------
(* State *)

NewCycle(sync) ==
    [pc |-> "add", idx |-> 0, stale |-> FALSE, sync |-> sync, basicOK |-> FALSE,
     skipped |-> {}, okset |-> {}, healthy |-> <<>>, hset |-> {}, desired |-> ""]

Idle == [kind |-> "none", healthy |-> <<>>, prev |-> "", want |-> "", rules |-> <<>>,
         ops |-> <<>>]

Running == mainpc \notin {"exited", "fatal"}

Cycles == BagToSet(cycles)

Move(c, d) == (cycles (-) SetToBag({c})) (+) SetToBag({d})

\* the loop's next position after interface c.idx
NextIf(c) ==
    IF c.idx = NumIfs THEN [c EXCEPT !.pc = "policy", !.basicOK = FALSE]
    ELSE [c EXCEPT !.pc = "begin", !.idx = @ + 1, !.basicOK = FALSE]

\* lines 114-115: i.status.time = time.Now(); i.lastStatus = i.status
record(o) ==
    LET s == [o.status EXCEPT !.time = 0]
    IN  [o EXCEPT !.status = s, !.hasLast = TRUE]

\* lines 81-82: the interface is in its time out
damped(o) == o.hasLast /\ o.lastUnhealthy < minTimeOut

\* lines 119-128 with the else left out: lastUnhealthy is set after every check
verdictAlways(o) == [o EXCEPT !.lastUnhealthy = o.status.time]

\* lines 119-128: an unhealthy verdict sets lastUnhealthy to the time of the
\* status, a healthy one sets nothing
verdict(o) ==
    IF healthy(o.status) THEN o ELSE [o EXCEPT !.lastUnhealthy = o.status.time]

\* loadConfig that keeps the vpsInterface objects it finds
loadConfigKeep(objs) == objs

\* loadConfig, config.go lines 161-166: config = new(vpsInstance), every
\* vpsInterface is a new object
loadConfig(objs) == FreshIfs

NoRes == [set |-> FALSE, ok |-> FALSE, flipped |-> FALSE, basic |-> <<>>, failed |-> {}]

MainInit ==
    /\ mainpc = "first"
    /\ wgCount = 0
    /\ cycles = SetToBag({NewCycle(TRUE)})
    /\ ifs = FreshIfs
    /\ currentStatus = ""
    /\ lbRules = <<>>
    /\ tgRules = initNFT(PreTargets, [at |-> 0, how |-> "ok"]).rules
    /\ nft = "conn"
    /\ sinceUnh = [i \in IfIds |-> NoVerdict]
    /\ lastEvt = Idle

Init == MainInit /\ callArg = ZeroStatus /\ callRes = NoRes

----------------------------------------------------------------------------
(* checkInterfaces *)

\* line 78-79: wg.Add(1); range config.Interfaces
CycleAdd(c) ==
    /\ Running /\ c.pc = "add"
    /\ wgCount' = wgCount + 1
    /\ cycles' = Move(c, [c EXCEPT !.pc = "begin", !.idx = 1])
    /\ lastEvt' = Idle
    /\ UNCHANGED <<mainpc, ifs, currentStatus, lbRules, tgRules, sinceUnh, nft, callArg, callRes>>

\* lines 80-111 (and 114-115 when the basic checks fail): the time-out test,
\* the first-check initialisation, basicChecks and the gate
Begin(c) ==
    /\ Running /\ c.pc = "begin" /\ ~c.stale
    /\ LET i == c.idx
           o == ifs[i]
       IN  IF damped(o)
           THEN /\ cycles' = Move(c, [NextIf(c) EXCEPT !.skipped = @ \cup {i}])
                /\ UNCHANGED <<ifs, sinceUnh>>
           ELSE \E obs \in BasicObs :
                  LET o1 == IF o.hasLast THEN o ELSE [o EXCEPT !.lastUnhealthy = Never]
                      o2 == [o1 EXCEPT !.status = basicChecks(@, obs)]
                  IN  IF healthy(o2.status)
                      THEN /\ ifs' = [ifs EXCEPT ![i] = o2]
                           /\ cycles' = Move(c, [c EXCEPT !.pc = "probe",
                                  !.basicOK = obs.exists /\ obs.up /\ obs.addressed])
                           /\ UNCHANGED sinceUnh
                      ELSE /\ ifs' = [ifs EXCEPT ![i] = record(o2)]
                           /\ sinceUnh' = [sinceUnh EXCEPT ![i].rec = 0]
                           /\ cycles' = Move(c, [c EXCEPT !.pc = "verdict"])
    /\ lastEvt' = Idle
    /\ UNCHANGED <<mainpc, wgCount, currentStatus, lbRules, tgRules, nft, callArg, callRes>>

\* line 110 and 114-115: healthChecks returns with the result of every probe
Probe(c) ==
    /\ Running /\ c.pc = "probe" /\ ~c.stale
    /\ LET i == c.idx
       IN  \E res \in [Checks(i) -> BOOLEAN] :
             ifs' = [ifs EXCEPT ![i] = record([@ EXCEPT !.status = healthChecks(@, res)])]
    /\ sinceUnh' = [sinceUnh EXCEPT ![c.idx].rec = 0]
    /\ cycles' = Move(c, [c EXCEPT !.pc = "verdict", !.basicOK = FALSE])
    /\ lastEvt' = Idle
    /\ UNCHANGED <<mainpc, wgCount, currentStatus, lbRules, tgRules, nft, callArg, callRes>>

\* lines 119-128: the verdict; an unhealthy one sets lastUnhealthy
Verdict(c) ==
    /\ Running /\ c.pc = "verdict" /\ ~c.stale
    /\ LET i == c.idx
           o == ifs[i]
       IN  /\ ifs' = [ifs EXCEPT ![i] = verdict(o)]
           /\ IF healthy(o.status)
              THEN /\ cycles' = Move(c, [NextIf(c) EXCEPT !.okset = @ \cup {i}])
                   /\ sinceUnh' = [sinceUnh EXCEPT ![i].bad = FALSE]
              ELSE /\ sinceUnh' = [sinceUnh EXCEPT ![i] =
                          IF @.rec < minTimeOut
                          THEN [rec |-> @.rec, age |-> @.rec, st |-> Fields(o.status),
                                bad |-> TRUE]
                          ELSE [@ EXCEPT !.bad = TRUE]]
                   /\ cycles' = Move(c, NextIf(c))
           /\ lastEvt' = [kind |-> "verdict", nif |-> i, ok |-> healthy(o.status),
                          was |-> sinceUnh[i].bad]
    /\ UNCHANGED <<mainpc, wgCount, currentStatus, lbRules, tgRules, nft, callArg, callRes>>

\* lines 80-128 in a cycle that took its range over config.Interfaces before
\* loadConfig replaced it: it reads and writes the replaced vpsInterface
\* objects, which nothing else reaches; one step per interface
StaleIf(c) ==
    /\ Running /\ c.pc = "begin" /\ c.stale
    /\ cycles' = Move(c, NextIf(c))
    /\ lastEvt' = Idle
    /\ UNCHANGED <<mainpc, wgCount, ifs, currentStatus, lbRules, tgRules, sinceUnh, nft, callArg, callRes>>

\* lines 131-146: the healthy interfaces and the desired status
Policy(c) ==
    /\ Running /\ c.pc = "policy"
    /\ LET hs == getHealthyInterfaces(ifs)
       IN  cycles' = Move(c, [c EXCEPT !.pc = "apply", !.skipped = {},
                                 !.healthy = hs,
                                 !.hset = {i \in IfIds : healthy(ifs[i].status)},
                                 !.desired = desiredStatus(currentStatus, hs)])
    /\ lastEvt' = Idle
    /\ UNCHANGED <<mainpc, wgCount, ifs, currentStatus, lbRules, tgRules, sinceUnh, nft, callArg, callRes>>

\* the cycle after its apply step
Applied(c) ==
    [c EXCEPT !.pc = "reset", !.okset = {}, !.healthy = <<>>, !.hset = {}, !.desired = ""]

\* lines 148-154 up to the connection of updateNFT (nft.go lines 81-85): the
\* global handle gets the new connection, or nil when nftables.New() fails
Apply(c) ==
    /\ Running /\ c.pc = "apply"
    /\ IF currentStatus = c.desired
       THEN /\ cycles' = Move(c, Applied(c))
            /\ lastEvt' = [kind |-> "apply", healthy |-> c.healthy,
                           prev |-> currentStatus, want |-> c.desired,
                           rules |-> lbRules, ops |-> <<>>]
            /\ UNCHANGED <<currentStatus, nft>>
       ELSE \E connOk \in BOOLEAN :
              IF connOk
              THEN /\ nft' = "conn"
                   /\ cycles' = Move(c, [c EXCEPT !.pc = "update", !.okset = {}])
                   /\ lastEvt' = Idle
                   /\ UNCHANGED currentStatus
              ELSE LET r == updateNFT(c.desired, Table(lbRules, tgRules), FALSE, TRUE, TRUE)
                   IN  /\ nft' = "nil"
                       /\ currentStatus' = r.state
                       /\ cycles' = Move(c, Applied(c))
                       /\ lastEvt' = [kind |-> "apply", healthy |-> c.healthy,
                                      prev |-> currentStatus, want |-> c.desired,
                                      rules |-> lbRules, ops |-> r.ops]
    /\ UNCHANGED <<mainpc, wgCount, ifs, lbRules, tgRules, sinceUnh, callArg, callRes>>

\* updateNFT lines 87-97 and the assignment of line 154: the flush and the
\* install, through the global handle. A handle that another goroutine has
\* set to nil in the meantime is a nil dereference in nft.FlushChain (panic),
\* unless this goroutine still sees its own connection.
Update(c) ==
    /\ Running /\ c.pc = "update"
    /\ cycles' = Move(c, Applied(c))
    /\ \E seen \in {nft, "conn"}, flushOk, addOk \in BOOLEAN :
         /\ flushOk \/ Len(lbRules) < MaxRules
         /\ LET r == updateNFT(c.desired, Table(lbRules, tgRules), TRUE, flushOk, addOk)
                nifs == IF c.desired = "all" THEN AllIfs ELSE Matching(Split(c.desired), 1, 1)
            IN  IF seen = "nil" /\ nifs # <<>>
                THEN /\ mainpc' = "fatal"
                     /\ lastEvt' = [kind |-> "apply", healthy |-> c.healthy,
                                    prev |-> currentStatus, want |-> c.desired,
                                    rules |-> lbRules, ops |-> <<"panic">>]
                     /\ UNCHANGED <<currentStatus, lbRules, tgRules>>
                ELSE /\ currentStatus' = IF r.fatal THEN currentStatus ELSE r.state
                     /\ lbRules' = r.rules[LBChain]
                     /\ tgRules' = Targets(r.rules)
                     /\ mainpc' = IF r.fatal THEN "fatal" ELSE mainpc
                     /\ lastEvt' = [kind |-> "apply", healthy |-> c.healthy,
                                    prev |-> currentStatus, want |-> c.desired,
                                    rules |-> lbRules, ops |-> r.ops]
    /\ UNCHANGED <<wgCount, ifs, sinceUnh, nft, callArg, callRes>>

\* lines 157-158: resetHealth(); wg.Done()
Reset(c) ==
    /\ Running /\ c.pc = "reset"
    /\ ifs' = resetHealth(ifs)
    /\ wgCount' = wgCount - 1
    /\ cycles' = cycles (-) SetToBag({c})
    /\ mainpc' = IF c.sync THEN "loop" ELSE mainpc
    /\ lastEvt' = Idle
    /\ UNCHANGED <<currentStatus, lbRules, tgRules, sinceUnh, nft, callArg, callRes>>

----------------------------------------------------------------------------
(* main *)

\* case <-ticker.C: go checkInterfaces()
Tick ==
    /\ mainpc = "loop"
    /\ BagCardinality(cycles) < MaxCycles
    /\ cycles' = cycles (+) SetToBag({NewCycle(FALSE)})
    /\ lastEvt' = Idle
    /\ UNCHANGED <<mainpc, wgCount, ifs, currentStatus, lbRules, tgRules, sinceUnh, nft, callArg, callRes>>

\* case <-hup, lines 56-57: the step is taken when wg.Wait() returns; main
\* receives nothing else while it waits
Hup ==
    /\ mainpc = "loop"
    /\ wgCount = 0
    /\ mainpc' = "reload"
    /\ lastEvt' = Idle
    /\ UNCHANGED <<wgCount, cycles, ifs, currentStatus, lbRules, tgRules, sinceUnh, nft, callArg, callRes>>

\* a cycle that has taken its range over config.Interfaces keeps the old
\* objects; inside the loop it goes on with them
Stale(bag) ==
    LET mark(c) == IF c.pc \in {"begin", "probe", "verdict"}
                   THEN [c EXCEPT !.stale = TRUE, !.pc = "begin", !.basicOK = FALSE,
                                  !.skipped = {}, !.okset = {}]
                   ELSE c
        img == {mark(c) : c \in BagToSet(bag)}
        RECURSIVE count(_, _)
        count(S, d) ==
            IF S = {} THEN 0
            ELSE LET c == CHOOSE x \in S : TRUE
                 IN  (IF mark(c) = d THEN CopiesIn(c, bag) ELSE 0) + count(S \ {c}, d)
    IN  [d \in img |-> count(BagToSet(bag), d)]

\* line 58: loadConfig() makes new vpsInterface objects
Reload ==
    /\ mainpc = "reload"
    /\ mainpc' = "initnft"
    /\ ifs' = loadConfig(ifs)
    /\ cycles' = Stale(cycles)
    /\ sinceUnh' = [i \in IfIds |-> NoVerdict]
    /\ lastEvt' = Idle
    /\ UNCHANGED <<wgCount, currentStatus, lbRules, tgRules, nft, callArg, callRes>>

\* lines 59-60: initNFT() sets the global handle and makes the targets
\* again, then resetHealth()
InitNFT ==
    /\ mainpc = "initnft"
    /\ \E fail \in InitFails :
         LET r == initNFT(tgRules, fail)
         IN  /\ tgRules' = r.rules
             /\ mainpc' = IF r.fatal THEN "fatal" ELSE "loop"
             /\ ifs' = IF r.fatal THEN ifs ELSE resetHealth(ifs)
    /\ nft' = "conn"
    /\ lastEvt' = Idle
    /\ UNCHANGED <<wgCount, cycles, currentStatus, lbRules, sinceUnh, callArg, callRes>>

\* case <-die, lines 62-64: wg.Wait() returns; os.Exit(0)
Die ==
    /\ mainpc = "loop"
    /\ wgCount = 0
    /\ mainpc' = "exited"
    /\ lastEvt' = Idle
    /\ UNCHANGED <<wgCount, cycles, ifs, currentStatus, lbRules, tgRules, sinceUnh, nft, callArg, callRes>>

\* the clock advances by one unit
Advance ==
    /\ Running
    /\ ifs' = [i \in IfIds |-> AgeIf(ifs[i])]
    /\ sinceUnh' = [i \in IfIds |-> AgeVerdict(sinceUnh[i])]
    /\ lastEvt' = Idle
    /\ UNCHANGED <<mainpc, wgCount, cycles, currentStatus, lbRules, tgRules, nft, callArg, callRes>>

Next ==
    \/ \E c \in Cycles : CycleAdd(c)
    \/ \E c \in Cycles : Begin(c)
    \/ \E c \in Cycles : Probe(c)
    \/ \E c \in Cycles : Verdict(c)
    \/ \E c \in Cycles : StaleIf(c)
    \/ \E c \in Cycles : Policy(c)
    \/ \E c \in Cycles : Apply(c)
    \/ \E c \in Cycles : Update(c)
    \/ \E c \in Cycles : Reset(c)
    \/ Tick
    \/ Hup
    \/ Reload
    \/ InitNFT
    \/ Die
    \/ Advance

Spec == Init /\ [][Next]_vars

----------------------------------------------------------------------------
(* healthy() called on its own, on every status with up to MaxChecks checks *)

CheckNames == {<<"c1", "c2", "c3", "c4">>[k] : k \in 1..MaxChecks}

StatusSpace ==
    {[exists |-> e, up |-> u, addressed |-> a, healthChecks |-> m, time |-> Never] :
        e \in BOOLEAN, u \in BOOLEAN, a \in BOOLEAN,
        m \in UNION {[D -> BOOLEAN] : D \in SUBSET CheckNames}}

InitHealthy == MainInit /\ callArg \in StatusSpace /\ callRes = NoRes

\* s.healthy()
CallHealthy ==
    /\ ~callRes.set
    /\ LET r == healthyReasons(callArg)
       IN  callRes' = [callRes EXCEPT !.set = TRUE, !.ok = r.ok,
                                     !.basic = r.basic, !.failed = r.failed]
    /\ UNCHANGED <<mainvars, callArg>>

\* one passing check of a healthy status starts failing
FlipOne ==
    /\ callRes.set /\ callRes.ok /\ ~callRes.flipped
    /\ \/ \E f \in {"exists", "up", "addressed"} : callArg' = [callArg EXCEPT ![f] = FALSE]
       \/ \E c \in DOMAIN callArg.healthChecks : callArg' = [callArg EXCEPT !.healthChecks[c] = FALSE]
    /\ callRes' = [NoRes EXCEPT !.flipped = TRUE]
    /\ UNCHANGED mainvars

NextHealthy == CallHealthy \/ FlipOne

SpecHealthy == InitHealthy /\ [][NextHealthy]_vars

----------------------------------------------------------------------------
(* addRuleToChain called on its own, on every list of up to MaxSel interfaces
   with ratios of RatioVals *)

\* values of vpsInterface.Ratio (int8)
RatioVals == {-1, 0, 1, 2, 3, 7, 127}

SelLists ==
    UNION {[1..n -> RatioVals] : n \in 1..MaxSel}

\* the selected interfaces with the ratios rs, in order
WithRatios(rs) == [k \in 1..Len(rs) |-> [Ratio |-> rs[k], Target |-> Target(k)]]

InitRule ==
    /\ MainInit
    /\ callArg \in {[nifs |-> WithRatios(rs), addOk |-> b] : rs \in SelLists, b \in BOOLEAN}
    /\ callRes = NoRes

\* addRuleToChain(i)
CallAddRule ==
    /\ ~callRes.set
    /\ callRes' = [set |-> TRUE, out |-> addRuleToChain(callArg.nifs, callArg.addOk)]
    /\ UNCHANGED <<mainvars, callArg>>

NextRule == CallAddRule

SpecRule == InitRule /\ [][NextRule]_vars

----------------------------------------------------------------------------
(* The health checks called on their own: a check of each type with up to
   MaxRetries retries, on every outcome of its dials, requests, pings or
   device list *)

RetryVals == -1..MaxRetries

TcpInputs ==
    {[kind |-> "tcp", c |-> [Retries |-> r], dials |-> d] :
        r \in RetryVals, d \in [1..(MaxRetries + 1) -> BOOLEAN]}

\* what client.Get returns: a transport error, or a response
HttpResps ==
    {[err |-> TRUE, code |-> 0, body |-> ""]} \cup
    {[err |-> FALSE, code |-> k, body |-> b] : k \in {200, 204}, b \in {"OK", "NO"}}

HttpInputs ==
    {[kind |-> "http",
      c |-> [Method |-> m, Retries |-> r, ResponseCode |-> k, MatchRegEx |-> re],
      resps |-> rs] :
        m \in {"GET", "POST"}, r \in RetryVals, k \in {200, 204},
        re \in {"", "OK", "("}, rs \in [1..(MaxRetries + 1) -> HttpResps]}

IcmpInputs ==
    {[kind |-> "icmp", c |-> [MaxRTT |-> mr, MaxLossPcnt |-> ml],
      p |-> [newErr |-> ne, runErr |-> re, AvgRtt |-> rtt, PacketLoss |-> loss]] :
        mr \in {0, 50}, ml \in {0, 20, 50}, ne \in BOOLEAN, re \in BOOLEAN,
        rtt \in {10, 60}, loss \in {0, 20, 40, 100}}

\* what client.Devices() can return
DevLists ==
    {<<>>, <<[Name |-> "wgX", Peers |-> {}]>>, <<[Name |-> "wg0", Peers |-> {}]>>} \cup
    {<<[Name |-> "wgX", Peers |-> {}],
       [Name |-> "wg0", Peers |-> {[PublicKey |-> "peerA", LastHandshake |-> h]}]>> :
        h \in 0..(MaxHandshake + 1)}

WgInputs ==
    {[kind |-> "wg",
      i |-> [Name |-> "wg0", WGPeer |-> pr, wgMaxHandshake |-> MaxHandshake],
      devices |-> old, cur |-> cur, fetchOk |-> ok] :
        pr \in {"", "peerA", "peerB"}, old \in DevLists, cur \in DevLists, ok \in BOOLEAN}

InitChecks ==
    /\ MainInit
    /\ callArg \in TcpInputs \cup HttpInputs \cup IcmpInputs \cup WgInputs
    /\ callRes = NoRes

\* c.checkTCP()
CallTCP ==
    /\ ~callRes.set /\ callArg.kind = "tcp"
    /\ callRes' = [set |-> TRUE, out |-> checkTCP(callArg.c, callArg.dials)]
    /\ UNCHANGED <<mainvars, callArg>>

\* c.checkHTTP()
CallHTTP ==
    /\ ~callRes.set /\ callArg.kind = "http"
    /\ callRes' = [set |-> TRUE, out |-> checkHTTP(callArg.c, callArg.resps)]
    /\ UNCHANGED <<mainvars, callArg>>

\* c.checkICMP()
CallICMP ==
    /\ ~callRes.set /\ callArg.kind = "icmp"
    /\ callRes' = [set |-> TRUE, out |-> [ok |-> checkICMP(callArg.c, callArg.p)]]
    /\ UNCHANGED <<mainvars, callArg>>

\* checkWgHealth(i)
CallWg ==
    /\ ~callRes.set /\ callArg.kind = "wg"
    /\ callRes' = [set |-> TRUE,
                   out |-> checkWgHealth(callArg.i, callArg.devices, callArg.cur, callArg.fetchOk)]
    /\ UNCHANGED <<mainvars, callArg>>

NextChecks == CallTCP \/ CallHTTP \/ CallICMP \/ CallWg

SpecChecks == InitChecks /\ [][NextChecks]_vars

----------------------------------------------------------------------------
(* The time out of one interface on the clock of the program: lines 80-95 and
   113-128 of checkInterfaces, cycle after cycle, for every minTimeOut of
   1..MaxQuiet clock units. Here the clock unit is 4380 hours, so that the
   8760 hours of line 94 are in range of the values of minTimeOut. *)

\* 8760 * time.Hour, in clock units
Hours8760 == 2
\* largest config.minTimeOut, in clock units
MaxQuiet == 3
\* the time the clock stops at
MaxNow == 4

DampInputs == {[kind |-> "damp", minTimeOut |-> q] : q \in 1..MaxQuiet}

\* the interface after loadConfig, at time 0; lastUnhealthy is not read
\* before line 94 has set it
NoDamp ==
    [set |-> FALSE, now |-> 0, hasLast |-> FALSE, lastUnhealthy |-> 0,
     everUnh |-> FALSE, skipped |-> FALSE]

\* lines 81-82: time.Since(i.lastUnhealthy) < config.minTimeOut
inTimeOut(s, q) == s.hasLast /\ s.now - s.lastUnhealthy < q

\* lines 80-128 for one interface; ok is the verdict of its checks
checkOnce(s, q, ok) ==
    IF inTimeOut(s, q) THEN [s EXCEPT !.set = TRUE, !.skipped = TRUE]
    ELSE LET first == IF s.hasLast THEN s.lastUnhealthy ELSE s.now - Hours8760
         IN  [s EXCEPT !.set = TRUE, !.skipped = FALSE, !.hasLast = TRUE,
                       !.lastUnhealthy = IF ok THEN first ELSE s.now,
                       !.everUnh = @ \/ ~ok]

InitDamp == MainInit /\ callArg \in DampInputs /\ callRes = NoDamp

\* a cycle reaches the interface
CheckOne ==
    /\ \E ok \in BOOLEAN : callRes' = checkOnce(callRes, callArg.minTimeOut, ok)
    /\ UNCHANGED <<mainvars, callArg>>

\* the clock advances by one unit
ClockDamp ==
    /\ callRes.now < MaxNow
    /\ callRes' = [callRes EXCEPT !.now = @ + 1]
    /\ UNCHANGED <<mainvars, callArg>>

NextDamp == CheckOne \/ ClockDamp

SpecDamp == InitDamp /\ [][NextDamp]_vars

----------------------------------------------------------------------------
(* initNFT of a reload next to a checkInterfaces that is still running: the
   goroutine was started by a tick before the SIGHUP and had not reached
   wg.Add(1) when main waited, so main has reloaded the configuration while
   the goroutine has computed its policy from the old objects. Here initNFT
   is taken one makeTarget at a time: nft.FlushChain queues the flush on the
   handle, commitAll sends what the handle holds. *)

\* the healthy interfaces of hs in the order of config.Interfaces
RECURSIVE SeqOf(_, _)
SeqOf(hs, i) ==
    IF i > NumIfs THEN <<>>
    ELSE (IF i \in hs THEN <<i>> ELSE <<>>) \o SeqOf(hs, i + 1)

\* the goroutine after line 146, with hs healthy and cur applied
Straggler(cur, hs) ==
    [NewCycle(FALSE) EXCEPT !.pc = "apply", !.idx = NumIfs, !.okset = hs,
                            !.healthy = SeqOf(hs, 1), !.hset = hs,
                            !.desired = desiredStatus(cur, SeqOf(hs, 1))]

InitRace ==
    /\ mainpc = "initnft"
    /\ wgCount = 1
    /\ ifs = FreshIfs
    /\ nft = "conn"
    /\ tgRules = initNFT(PreTargets, [at |-> 0, how |-> "ok"]).rules
    /\ sinceUnh = [i \in IfIds |-> NoVerdict]
    /\ lastEvt = Idle
    /\ \E cur \in {"", "all"}, hs \in SUBSET IfIds :
         /\ currentStatus = cur
         /\ lbRules = IF cur = "" THEN <<>> ELSE <<makeRule(Confs(AllIfs))>>
         /\ cycles = SetToBag({Straggler(cur, hs)})
    /\ callArg = ZeroStatus /\ callRes = NoRes

\* main after makeTarget of the interfaces before i: with a marked interface
\* left, its chain is added and its flush is queued on the handle; with none
\* left, initNFT returns and resetHealth() runs
InitGoOn(i, how) ==
    LET j == NextMarked(i)
    IN  IF how = "commit_err"
        THEN mainpc' = "fatal" /\ nft' = "conn" /\ UNCHANGED ifs
        ELSE IF j # 0
        THEN mainpc' = FlushPc(j) /\ nft' = "held" /\ UNCHANGED ifs
        ELSE mainpc' = "loop" /\ nft' = "conn" /\ ifs' = resetHealth(ifs)

\* line 59, initNFT lines 24-75 up to the first flush that makeTarget
\* queues: the global handle is set to a new nftables.Conn
InitTargets ==
    /\ mainpc = "initnft"
    /\ \E how \in {"ok", "commit_err"} : InitGoOn(1, how)
    /\ lastEvt' = Idle
    /\ UNCHANGED <<wgCount, cycles, currentStatus, lbRules, tgRules, sinceUnh, callArg, callRes>>

\* makeTarget lines 195-213 for the marked interface i: commitAll on the
\* handle that nft points to now (nil is a nil dereference), the nft
\* command; then on to the next interfaces (and line 60 after the last)
MakeTarget(i) ==
    /\ mainpc = FlushPc(i)
    /\ IF nft = "nil"
       THEN mainpc' = "fatal" /\ UNCHANGED <<nft, ifs, tgRules>>
       ELSE \E how \in {"ok", "commit_err", "cmd_err"} :
              LET r == makeTarget(i, tgRules[i], how, nft = "held")
              IN  /\ tgRules' = [tgRules EXCEPT ![i] = r.rules]
                  /\ IF r.fatal
                     THEN mainpc' = "fatal" /\ UNCHANGED <<nft, ifs>>
                     ELSE \E how2 \in {"ok", "commit_err"} : InitGoOn(i + 1, how2)
    /\ lastEvt' = Idle
    /\ UNCHANGED <<wgCount, cycles, currentStatus, lbRules, sinceUnh, callArg, callRes>>

NextInit ==
    \/ InitTargets
    \/ \E i \in IfIds : MakeTarget(i)
    \/ \E c \in Cycles : Apply(c)
    \/ \E c \in Cycles : Update(c)
    \/ \E c \in Cycles : Reset(c)

SpecInit == InitRace /\ [][NextInit]_vars

----------------------------------------------------------------------------
(* checkInterfaces run one at a time, each to its end before the next
   starts, and reloads between them. What an apply step leaves in the
   shared chain is followed up to MaxLeft rules, and sinceUnh is kept over
   a reload: it is the time since the unhealthy verdict on the interface of
   that name. *)

\* rules the shared chain may hold when cycles run one at a time
MaxLeft == 2

\* the names of all configured checks
AllChecks == UNION {Checks(i) : i \in IfIds}

\* main.go lines 93-128 for one interface that is not in its time out
checkIf(o, obs, res) ==
    LET o1 == IF o.hasLast THEN o ELSE [o EXCEPT !.lastUnhealthy = Never]
        o2 == [o1 EXCEPT !.status = basicChecks(@, obs)]
        o3 == IF healthy(o2.status)
              THEN [o2 EXCEPT !.status = healthChecks(@, res)]
              ELSE o2
    IN  verdict(record(o3))

\* checkInterfaces from its first line to its last, updateNFT included
CycleAlone ==
    /\ mainpc \in {"first", "loop"}
    /\ \E obs \in [IfIds -> BasicObs],
          res \in [{i \in IfIds : Checks(i) # {}} -> [AllChecks -> BOOLEAN]] :
         LET skipped == {i \in IfIds : damped(ifs[i])}
             objs == [i \in IfIds |->
                        IF i \in skipped THEN ifs[i]
                        ELSE checkIf(ifs[i], obs[i], [n \in Checks(i) |-> res[i][n]])]
             healthyInterfaces == getHealthyInterfaces(objs)
             desired == desiredStatus(currentStatus, healthyInterfaces)
             evt == [kind |-> "apply", healthy |-> healthyInterfaces,
                     prev |-> currentStatus, want |-> desired, rules |-> lbRules,
                     skipped |-> skipped,
                     first |-> \A i \in IfIds : ~ifs[i].hasLast,
                     recent |-> {i \in IfIds : sinceUnh[i].age < minTimeOut}]
         IN  /\ sinceUnh' = [i \in IfIds |->
                    IF i \in skipped THEN sinceUnh[i]
                    ELSE IF healthy(objs[i].status)
                    THEN [sinceUnh[i] EXCEPT !.rec = 0, !.bad = FALSE]
                    ELSE [rec |-> 0, age |-> 0, st |-> Fields(objs[i].status),
                          bad |-> TRUE]]
             /\ IF currentStatus = desired
                THEN /\ mainpc' = "loop"
                     /\ ifs' = resetHealth(objs)
                     /\ lastEvt' = evt @@ [ops |-> <<>>]
                     /\ UNCHANGED <<currentStatus, lbRules, nft>>
                ELSE \E connOk, flushOk, addOk \in BOOLEAN :
                       LET r == updateNFT(desired, Table(lbRules, tgRules),
                                          connOk, flushOk, addOk)
                       IN  /\ Len(r.rules[LBChain]) <= MaxLeft
                           /\ nft' = IF connOk THEN "conn" ELSE "nil"
                           /\ currentStatus' = IF r.fatal THEN currentStatus ELSE r.state
                           /\ lbRules' = r.rules[LBChain]
                           /\ mainpc' = IF r.fatal THEN "fatal" ELSE "loop"
                           /\ ifs' = IF r.fatal THEN objs ELSE resetHealth(objs)
                           /\ lastEvt' = evt @@ [ops |-> r.ops]
    /\ cycles' = EmptyBag
    /\ UNCHANGED <<wgCount, tgRules, callArg, callRes>>

\* case <-hup, main.go lines 55-60, with no checkInterfaces running:
\* loadConfig(), initNFT(), resetHealth(); currentStatus is not assigned
ReloadAlone ==
    /\ mainpc = "loop"
    /\ \E fail \in InitFails :
         LET r == initNFT(tgRules, fail)
         IN  /\ tgRules' = r.rules
             /\ mainpc' = IF r.fatal THEN "fatal" ELSE "loop"
             /\ ifs' = IF r.fatal THEN loadConfig(ifs) ELSE resetHealth(loadConfig(ifs))
    /\ nft' = "conn"
    /\ lastEvt' = [Idle EXCEPT !.kind = "reload", !.prev = currentStatus, !.rules = lbRules]
    /\ UNCHANGED <<wgCount, cycles, currentStatus, lbRules, sinceUnh, callArg, callRes>>

NextAlone ==
    \/ CycleAlone
    \/ ReloadAlone
    \/ Advance

SpecAlone == Init /\ [][NextAlone]_vars

----------------------------------------------------------------------------
(* healthChecks() over checks of any type, on an interface with up to
   MaxChecks checks and without wireguard; outs[k] is what the probe of the
   k-th check returns, or would return if it ran *)

\* the types healthCheck has a case for
KnownTypes == {"tcp", "icmp", "http"}

\* vpsHealthCheck.Type
CheckTypes == KnownTypes \cup {"udp", "TCP"}

\* the configured checks: names differ, any type
TypedChecks ==
    UNION {{[k \in 1..n |-> [Name |-> <<"c1", "c2", "c3", "c4">>[k], Type |-> ts[k]]] :
                ts \in [1..n -> CheckTypes]} : n \in 0..MaxChecks}

TypedInputs ==
    UNION {{[kind |-> "typed", obs |-> o, checks |-> cs, outs |-> outs] :
                o \in BasicObs, outs \in [1..Len(cs) -> BOOLEAN]} : cs \in TypedChecks}

\* healthCheck that records a check of unknown type as failed
healthCheckFailUnknown(m, c, out) ==
    Put(m, c.Name, c.Type \in KnownTypes /\ out)

\* healthCheck, vps.go lines 382-406: the result of the probe is recorded
\* under the name of the check; the default case records nothing
healthCheck(m, c, out) ==
    IF c.Type \in KnownTypes THEN Put(m, c.Name, out) ELSE m

RECURSIVE checksFrom(_, _, _, _)
\* healthChecks() lines 364-373 from the k-th check on
checksFrom(m, cs, outs, k) ==
    IF k > Len(cs) THEN m
    ELSE checksFrom(healthCheck(m, cs[k], outs[k]), cs, outs, k + 1)

\* main.go lines 104-111 on a new status: basicChecks, then healthChecks if
\* the basic checks pass
checkTyped(obs, cs, outs) ==
    LET s == basicChecks(ZeroStatus, obs)
    IN  IF healthy(s)
        THEN [s EXCEPT !.healthChecks = checksFrom(EmptyMap, cs, outs, 1)]
        ELSE s

InitTyped == MainInit /\ callArg \in TypedInputs /\ callRes = NoRes

\* the checks of the first interface, then healthy() and
\* getHealthyInterfaces()
CallTyped ==
    /\ ~callRes.set
    /\ LET st == checkTyped(callArg.obs, callArg.checks, callArg.outs)
           hs == getHealthyInterfaces([FreshIfs EXCEPT ![1].status = st])
       IN  callRes' = [set |-> TRUE, status |-> st, ok |-> healthy(st),
                       admitted |-> \E k \in 1..Len(hs) : hs[k] = 1]
    /\ UNCHANGED <<mainvars, callArg>>

NextTyped == CallTyped

SpecTyped == InitTyped /\ [][NextTyped]_vars

----------------------------------------------------------------------------
(* Claims *)

AllPass(s) ==
    /\ s.exists /\ s.up /\ s.addressed
    /\ \A c \in DOMAIN s.healthChecks : s.healthChecks[c]

\* C1: healthy() is true exactly when exists, up and addressed are true and
\* every entry of the check map is true; after any single one of them is
\* flipped to false, healthy() is false.
C1_HealthyIffAllPass ==
    callRes.set => /\ (callRes.ok <=> AllPass(callArg))
                   /\ (callRes.flipped => ~callRes.ok)

\* C1 witness: healthy() has been called on a status that was healthy and had
\* one check flipped, and on a status with two map entries.
C1_Witness ==
    callRes.set /\ callRes.flipped /\ ~callRes.ok /\ Cardinality(DOMAIN callArg.healthChecks) = 2

\* C2: a cycle runs the health probes of an interface only if the basic
\* checks it made itself all passed.
C2_ProbesOnlyAfterBasicPass ==
    \A c \in Cycles : c.pc = "probe" => c.basicOK

\* the interfaces of a set, in configuration order
RECURSIVE InOrder(_, _)
InOrder(S, i) ==
    IF i > NumIfs THEN <<>>
    ELSE IF i \in S THEN <<Name(i)>> \o InOrder(S, i + 1)
    ELSE InOrder(S, i + 1)

C4_NoHealthyNoAction ==
    (lastEvt.kind = "apply" /\ lastEvt.healthy = <<>>) =>
        /\ lastEvt.ops = <<>>
        /\ currentStatus = lastEvt.prev
        /\ mainpc # "fatal"

\* the rule that installs a policy
RuleOf(ds) == makeRule(Confs(IF ds = "all" THEN AllIfs ELSE Matching(Split(ds), 1, 1)))

\* C5: a cycle whose policy is the one whose rule was installed last makes
\* no flush and no install.
C5_SamePolicyNoReapply ==
    (/\ lastEvt.kind = "apply"
     /\ lastEvt.rules # <<>>
     /\ lastEvt.healthy # <<>>
     /\ lastEvt.rules[Len(lastEvt.rules)] = RuleOf(lastEvt.want)) =>
        lastEvt.ops = <<>>

\* C6: a cycle that reaches an interface less than minTimeOut after the
\* check of it that was found unhealthy (and with no reload since) skips it.
C6_DampedNotProbed ==
    \A c \in Cycles :
        (c.pc = "begin" /\ ~c.stale /\ sinceUnh[c.idx].age < minTimeOut) =>
            damped(ifs[c.idx])

\* C7: when a cycle that skipped an interface computes its policy inside the
\* time out, the status of that interface is the one of the unhealthy verdict.
C7_DampedStatusRetained ==
    \A c \in Cycles :
        c.pc = "policy" =>
            \A i \in c.skipped :
                (sinceUnh[i].age < minTimeOut => Fields(ifs[i].status) = sinceUnh[i].st)

\* C8: at most one execution of checkInterfaces is between wg.Add and wg.Done.
C8_OneCycleAtATime ==
    \A c, d \in Cycles :
        (c.pc # "add" /\ d.pc # "add") => (c = d /\ CopiesIn(c, cycles) = 1)

\* C9: while main reloads (loadConfig, initNFT, resetHealth) no cycle that a
\* tick started is unfinished.
C9_DrainBeforeReload ==
    mainpc \in {"reload", "initnft"} => cycles = EmptyBag

\* C10: when the process has exited with status 0, no cycle that a tick
\* started is unfinished.
C10_DrainBeforeExit ==
    mainpc = "exited" => cycles = EmptyBag

RECURSIVE SumOf(_)
\* the arithmetic sum of the ratios of a list of interfaces
SumOf(nifs) == IF nifs = <<>> THEN 0 ELSE Head(nifs).Ratio + SumOf(Tail(nifs))

\* C11: for interfaces with positive ratios makeRule gives one range per
\* interface, in order: the first starts at 0, each holds ratio many values
\* and starts one past the end of the one before, the last ends at
\* modulus - 1, and each goes to the target of its interface.
C11_RangesPartitionModulus ==
    (callRes.set /\ \A k \in DOMAIN callArg.nifs : callArg.nifs[k].Ratio > 0) =>
        LET nifs == callArg.nifs
            r == callRes.out.cmd
            n == Len(nifs)
        IN  /\ Len(r.vmap) = n
            /\ r.vmap[1].lo = 0
            /\ \A k \in 1..n : /\ r.vmap[k].hi - r.vmap[k].lo + 1 = nifs[k].Ratio
                                /\ r.vmap[k].target = nifs[k].Target
            /\ \A k \in 1..(n - 1) : r.vmap[k + 1].lo = r.vmap[k].hi + 1
            /\ r.vmap[n].hi = r.mod - 1

\* C12: the modulus of the rule is the arithmetic sum of the ratios of the
\* selected interfaces, for every int8 ratio.
C12_ModulusIsSumOfRatios ==
    callRes.set => callRes.out.cmd.mod = SumOf(callArg.nifs)

\* C13: when the ratios of the selected interfaces sum to zero no rule is
\* generated or installed and the failure is fatal.
C13_ZeroSumFailsLoudly ==
    (callRes.set /\ SumOf(callArg.nifs) = 0) =>
        /\ callRes.out.fatal
        /\ callRes.out.cmd = NoCmd
        /\ ~callRes.out.installed

\* the calls of an apply step that failed
Failed(ops) == {k \in DOMAIN ops : ops[k] \in {"connect_err", "flush_err", "add_err"}}

\* C14: after an apply attempt in which the connection, the flush or the
\* install failed, currentStatus has the value it had before the attempt, the
\* process runs on, and no rule was added to a chain that was not flushed.
C14_FailedApplyKeepsState ==
    (lastEvt.kind = "apply" /\ Failed(lastEvt.ops) # {}) =>
        /\ currentStatus = lastEvt.prev
        /\ mainpc # "fatal"
        /\ (lastEvt.ops[1] = "flush_err" => lbRules = lastEvt.rules)

FirstGood(good, n) ==
    IF \E k \in 1..n : good[k]
    THEN CHOOSE k \in 1..n : good[k] /\ \A j \in 1..(k - 1) : ~good[j]
    ELSE 0

\* C16: with Retries = R >= 0 checkTCP passes at the first dial that
\* connects and dials no more; when no dial connects it makes R + 1 dials
\* and fails; it sleeps once after every dial that fails.
C16_TcpAttempts ==
    (callRes.set /\ callArg.kind = "tcp" /\ callArg.c.Retries >= 0) =>
        LET R == callArg.c.Retries
            k == FirstGood(callArg.dials, R + 1)
            out == callRes.out
        IN  IF k = 0
            THEN ~out.ok /\ out.attempts = R + 1 /\ out.sleeps = R + 1
            ELSE out.ok /\ out.attempts = k /\ out.sleeps = k - 1

\* C16 witness: Retries = 2 and no dial connects: three dials, failure.
C16_Witness ==
    /\ callRes.set /\ callArg.kind = "tcp" /\ callArg.c.Retries = 2
    /\ ~callRes.out.ok /\ callRes.out.attempts = 3

\* C17: checkHTTP with method GET and Retries = R >= 0 sleeps and asks again
\* after a transport error, up to R + 1 requests; the first response decides
\* with no further request: pass when the code is the expected one and the
\* body matches the pattern, if one is configured, fail otherwise. A pattern
\* that does not compile fails the check before any request.
C17_HttpFirstResponseDecides ==
    (callRes.set /\ callArg.kind = "http" /\ callArg.c.Method = "GET"
        /\ callArg.c.Retries >= 0) =>
        LET c == callArg.c
            R == c.Retries
            k == FirstGood([j \in 1..(R + 1) |-> ~callArg.resps[j].err], R + 1)
            out == callRes.out
        IN  IF c.MatchRegEx # "" /\ ~Compiles(c.MatchRegEx)
            THEN ~out.ok /\ out.requests = 0
            ELSE IF k = 0
            THEN ~out.ok /\ out.requests = R + 1 /\ out.sleeps = R + 1
            ELSE /\ out.requests = k /\ out.sleeps = k - 1
                 /\ (out.ok <=> (/\ callArg.resps[k].code = c.ResponseCode
                                 /\ (c.MatchRegEx = "" \/
                                       Match(c.MatchRegEx, callArg.resps[k].body))))

\* C17 witness: after one transport error a response with the wrong code
\* fails the check at once, with retries left.
C17_Witness ==
    /\ callRes.set /\ callArg.kind = "http" /\ callArg.c.Method = "GET"
    /\ callArg.c.Retries = 2 /\ callArg.c.MatchRegEx = ""
    /\ callArg.resps[1].err /\ ~callArg.resps[2].err
    /\ callArg.resps[2].code # callArg.c.ResponseCode
    /\ ~callRes.out.ok /\ callRes.out.requests = 2

\* C18: checkICMP fails when the pinger cannot be built or run, when MaxRTT
\* is not 0 and the average RTT is above it, when MaxLossPcnt is not 0 and
\* the loss is above it, when MaxLossPcnt is 0 and the loss is 100; it
\* passes in every other case.
C18_IcmpVerdict ==
    (callRes.set /\ callArg.kind = "icmp") =>
        LET c == callArg.c
            p == callArg.p
        IN  callRes.out.ok <=>
                ~(\/ p.newErr \/ p.runErr
                  \/ (c.MaxRTT # 0 /\ p.AvgRtt > c.MaxRTT)
                  \/ (c.MaxLossPcnt # 0 /\ p.PacketLoss > c.MaxLossPcnt)
                  \/ (c.MaxLossPcnt = 0 /\ p.PacketLoss = 100))

\* C18 witness: a loss equal to the configured maximum passes.
C18_Witness ==
    /\ callRes.set /\ callArg.kind = "icmp" /\ callRes.out.ok
    /\ callArg.c.MaxLossPcnt = 20 /\ callArg.p.PacketLoss = 20 /\ callArg.c.MaxRTT # 0

\* C19: checkWgHealth works on the device list it fetches at its start; the
\* interface gets a failed check exactly when its device is not in that
\* list, or a peer is configured and is not a peer of the device, or the
\* time since that peer's last handshake is above the maximum; without a
\* configured peer only the presence of the device is checked.
C19_WgChecksOnFreshList ==
    (callRes.set /\ callArg.kind = "wg" /\ ~callRes.out.fatal) =>
        LET i == callArg.i
            out == callRes.out
            devs == {callArg.cur[k] : k \in DOMAIN callArg.cur}
            present == \E d \in devs : d.Name = i.Name
            peers == UNION {d.Peers : d \in {x \in devs : x.Name = i.Name}}
            hasPeer == \E q \in peers : q.PublicKey = i.WGPeer
            late == \E q \in peers : q.PublicKey = i.WGPeer /\ q.LastHandshake > i.wgMaxHandshake
        IN  /\ out.devices = callArg.cur
            /\ ((\E c \in DOMAIN out.checks : ~out.checks[c]) <=>
                    (~present \/ (i.WGPeer # "" /\ (~hasPeer \/ late))))
            /\ (i.WGPeer = "" => DOMAIN out.checks = {"wg_dev_exists"})

\* C19 witness: the list fetched earlier held the device and its peer, the
\* list fetched now does not hold the device, and the check fails.
C19_Witness ==
    /\ callRes.set /\ callArg.kind = "wg" /\ ~callRes.out.fatal
    /\ callArg.i.WGPeer = "peerA"
    /\ getWgDev(callArg.devices, "wg0") # None /\ getWgDev(callArg.cur, "wg0") = None
    /\ callRes.out.checks = Put(EmptyMap, "wg_dev_exists", FALSE)

\* C20: while a cycle is running the probes of an interface no step writes
\* currentStatus and no step sets a lastUnhealthy timestamp.
C20_NoWriteWhileProbing ==
    [][(\/ currentStatus' # currentStatus
        \/ \E i \in IfIds : ifs'[i].lastUnhealthy < ifs[i].lastUnhealthy) =>
          \A c \in Cycles : c.pc # "probe"]_vars

RECURSIVE Copies(_)
\* the number of running executions of checkInterfaces among those of S
Copies(S) ==
    IF S = {} THEN 0
    ELSE LET c == CHOOSE x \in S : TRUE
         IN  CopiesIn(c, cycles) + Copies(S \ {c})

\* the executions of checkInterfaces that are inside updateNFT, after the
\* connection and before the flush and the install are done
InUpdate == Copies({c \in Cycles : c.pc = "update"})

\* C21: while the process runs, at most one step drives the nftables
\* connection: never two apply steps at once, never an apply step while main
\* is about to run initNFT in a reload, and the global handle is never
\* replaced by nil under an apply step that is using it.
C21_OneNftUser ==
    Running =>
        /\ InUpdate + (IF mainpc = "initnft" THEN 1 ELSE 0) <= 1
        /\ (InUpdate > 0 => nft # "nil")

\* C22: the policy of a cycle is computed after the loop over the interfaces
\* has ended, and the healthy set it reads is the set of the interfaces that
\* the checks of this cycle found healthy.
C22_PolicyReadsOwnStatuses ==
    \A c \in Cycles : c.pc = "apply" => c.hset = c.okset

\* C23: the checks of the interfaces of a cycle run as concurrent tasks: while
\* the probes of one interface are in progress (and no other cycle runs), a
\* step that starts the checks of the next interface can be taken without
\* waiting for them.
C23_ProbeDelaysNoOther ==
    \A c \in Cycles :
        (BagCardinality(cycles) = 1 /\ c.pc = "probe" /\ c.idx < NumIfs) =>
            ENABLED (\E d \in Cycles : d.idx = c.idx + 1 /\ Begin(d))

\* the step leaves lastUnhealthy of interface i as it is: the only change is
\* the passing of time, or loadConfig making new objects
Kept(i) ==
    \/ ifs'[i].lastUnhealthy = ifs[i].lastUnhealthy
    \/ ifs' = [j \in IfIds |-> AgeIf(ifs[j])]
    \/ (mainpc = "reload" /\ ifs' = FreshIfs)

\* the step is the verdict of a check of interface i, and it is unhealthy
UnhealthyVerdict(i) ==
    lastEvt'.kind = "verdict" /\ lastEvt'.nif = i /\ ~lastEvt'.ok

C25_NeverUnhealthyNeverSkipped ==
    (callRes.set /\ ~callRes.everUnh) => ~callRes.skipped

\* C26: the time out only delays the next check. When a cycle reads the
\* healthy set, an interface that is not healthy is one whose last verdict
\* was unhealthy; a cycle that reaches an interface when minTimeOut or more
\* has passed since its last unhealthy verdict does not skip it; and an
\* interface that the checks of a cycle found healthy is in the healthy set
\* of that cycle.
C26_DampingOnlyDelays ==
    \A c \in Cycles :
        /\ c.pc = "policy" =>
                \A i \in IfIds : ~healthy(ifs[i].status) => sinceUnh[i].bad
        /\ (c.pc = "begin" /\ ~c.stale /\ sinceUnh[c.idx].age = Never) =>
                ~damped(ifs[c.idx])
        /\ c.pc = "apply" => c.okset \subseteq c.hset

\* the basic checks of a status that are false
FalseBasic(s) == {f \in {"exists", "up", "addressed"} : ~s[f]}

\* the entries of the check map of a status that are false
FalseChecks(s) == {c \in DOMAIN s.healthChecks : ~s.healthChecks[c]}

\* C27 as stated: the reasons of healthy() have one entry for every basic
\* check that is false and one for every entry of the check map that is
\* false.
C27_OneReasonPerFailedCheck ==
    callRes.set =>
        /\ Len(callRes.basic) = Cardinality(FalseBasic(callArg))
        /\ callRes.failed = FalseChecks(callArg)

\* C27 amended: the reasons of healthy() have one entry for the first basic
\* check that is false, in the order exists, up, addressed, and none for the
\* basic checks after it; and one entry for every entry of the check map
\* that is false. The verdict is healthy exactly when there is no reason.
C27_FirstBasicAndEachFailedCheck ==
    callRes.set =>
        LET s == callArg
        IN  /\ Len(callRes.basic) = IF FalseBasic(s) = {} THEN 0 ELSE 1
            /\ ~s.exists => callRes.basic = <<"Interface does not exist">>
            /\ (s.exists /\ ~s.up) => callRes.basic = <<"Interface is no up">>
            /\ (s.exists /\ s.up /\ ~s.addressed) =>
                    callRes.basic = <<"Interface not properly addressed">>
            /\ callRes.failed = FalseChecks(s)
            /\ callRes.ok <=> (callRes.basic = <<>> /\ callRes.failed = {})

\* C27 witness: healthy() has been called on a status of an existing
\* interface that is neither up nor addressed, with one check of two
\* failed: two reasons for three failed checks.
C27_Witness ==
    /\ callRes.set /\ callArg.exists /\ ~callArg.up /\ ~callArg.addressed
    /\ Cardinality(DOMAIN callArg.healthChecks) = 2
    /\ Cardinality(callRes.failed) = 1
    /\ callRes.basic = <<"Interface is no up">>

\* C28: when the listing of the WireGuard devices fails, checkWgHealth
\* returns, the process runs on, and the interface has a failed check for
\* this cycle.
C28_ListingFailureIsTransient ==
    (callRes.set /\ callArg.kind = "wg" /\ ~callArg.fetchOk) =>
        /\ ~callRes.out.fatal
        /\ \E c \in DOMAIN callRes.out.checks : ~callRes.out.checks[c]

\* C29: checkHTTP with a method other than GET, or with a body pattern that
\* does not compile, returns false without a request and without a sleep,
\* whatever the server would answer and however many retries are configured.
C29_BadMethodOrPatternFailsAtOnce ==
    (/\ callRes.set /\ callArg.kind = "http"
     /\ \/ callArg.c.Method # "GET"
        \/ (callArg.c.MatchRegEx # "" /\ ~Compiles(callArg.c.MatchRegEx))) =>
        /\ ~callRes.out.ok
        /\ callRes.out.requests = 0
        /\ callRes.out.sleeps = 0

\* C29 witness: a check with method POST and two retries has failed without
\* a request, where the server would have answered with the expected code
\* and a matching body.
C29_Witness ==
    /\ callRes.set /\ callArg.kind = "http" /\ callArg.c.Method = "POST"
    /\ callArg.c.Retries = 2 /\ callArg.c.MatchRegEx = "OK"
    /\ ~callArg.resps[1].err /\ callArg.resps[1].code = callArg.c.ResponseCode
    /\ callArg.resps[1].body = "OK"
    /\ ~callRes.out.ok /\ callRes.out.requests = 0


\* C30: while the process runs and main is not inside makeTarget, the target
\* chain of every interface with a mark holds exactly the one rule that sets
\* its mark, after any number of reloads and policy changes, and the target
\* chain of an interface without a mark holds what it held before the
\* program started.
C30_OneMarkRulePerMarkedChain ==
    (Running /\ mainpc \notin FlushPcs) =>
        \A i \in IfIds :
            /\ (Mark(i) # 0 => tgRules[i] = <<MarkRule(i)>>)
            /\ (Mark(i) = 0 => tgRules[i] = PreTargets[i])

\* the interfaces whose target the rule r sends packets to
GotoTargets(r) == {r.vmap[k].target : k \in 1..Len(r.vmap)}

\* C31: when the apply step of a cycle ends with no other cycle running, a
\* healthy set that is not empty and no failed nftables call, the shared
\* chain holds exactly one rule, the rule made from every configured
\* interface when all are healthy and from the healthy interfaces in
\* configuration order otherwise, and no target of an unhealthy interface is
\* a goto target of it.
C31_RuleOfHealthySet ==
    (/\ lastEvt.kind = "apply" /\ Running
     /\ BagCardinality(cycles) <= 1
     /\ lastEvt.healthy # <<>>
     /\ lastEvt.ops \in {<<>>, <<"flush", "add">>}) =>
        /\ lbRules = <<makeRule(Confs(IF Len(lastEvt.healthy) = NumIfs
                                      THEN AllIfs ELSE lastEvt.healthy))>>
        /\ GotoTargets(lbRules[1]) =
               {Target(lastEvt.healthy[k]) : k \in 1..Len(lastEvt.healthy)}

\* C32: a reload leaves currentStatus and the shared chain as they were and
\* gives every interface a new object that no cycle has checked; the first
\* cycle after it skips no interface, however recently one was found
\* unhealthy; and a cycle whose policy is the string in currentStatus makes
\* no nftables call and leaves the shared chain as it was.
C32_ReloadResetsFlapKeepsPolicy ==
    /\ lastEvt.kind = "reload" =>
            /\ currentStatus = lastEvt.prev
            /\ lbRules = lastEvt.rules
            /\ \A i \in IfIds : ~ifs[i].hasLast /\ ~damped(ifs[i])
    /\ (lastEvt.kind = "apply" /\ lastEvt.first) => lastEvt.skipped = {}
    /\ (lastEvt.kind = "apply" /\ lastEvt.want = lastEvt.prev) =>
            /\ lastEvt.ops = <<>>
            /\ currentStatus = lastEvt.prev
            /\ lbRules = lastEvt.rules

\* C32 witness: both interfaces were found unhealthy less than minTimeOut
\* ago while "all" was applied, a reload followed, and the first cycle after
\* it has checked both, found them healthy and made no nftables call.
C32_Witness ==
    /\ lastEvt.kind = "apply" /\ lastEvt.first
    /\ lastEvt.recent = IfIds /\ lastEvt.skipped = {}
    /\ lastEvt.prev = "all" /\ lastEvt.want = "all" /\ lastEvt.ops = <<>>
    /\ Len(lastEvt.healthy) = NumIfs /\ mainpc = "loop"

\* the checks of a type that healthCheck runs
Run(cs) == {k \in 1..Len(cs) : cs[k].Type \in {"tcp", "icmp", "http"}}

====
